---- MODULE Spec2Model ----
(***************************************************************************)
(* Model of lib/grunt-helpers.js: the sequential command runner            *)
(* (runCommands / executeCommand), the statistics runner                   *)
(* (runStats / generateStats / gzipSize / gzipfile), md5file and getStat.  *)
(*                                                                         *)
(* Asynchronous boundaries of the code are the actions of the model: the   *)
(* callbacks of child_process.exec, zlib.gzip and fs.lstat, and the events *)
(* of the read stream.  All the                                            *)
(* code that runs synchronously inside one call or one callback is one     *)
(* action.  The synchronous code is written as operators over a record m   *)
(* that holds the mutable part of the state; m.exc is TRUE while a         *)
(* JavaScript exception is propagating.                                    *)
(*                                                                         *)
(* Queue entries are objects with an identity, so that a write to a        *)
(* descriptor shows wherever that object is queued.  The source does not   *)
(* fix the version of when; whether the deferred of when.defer() is        *)
(* thenable itself is part of the initial state.  The percent figure is    *)
(* computed in double precision, as JavaScript computes it.                *)
(***************************************************************************)
EXTENDS Integers, Sequences, FiniteSets

VARIABLES
  api,        \* the helper the caller invokes: "runCommands", "runStats",
              \* "md5file" or "getStat"
  pc,         \* of runCommands / runStats: "idle" before the call, "returned"
              \* after it, "threw" if it threw
  commands,   \* the queue argument (an Array, consumed by shift())
  queue0,     \* history: the queue as the caller passed it
  optSilent,  \* third argument of runCommands
  options,    \* second argument of runStats
  fs,         \* the file system seen by grunt.file.read
  deferredThenable, \* the installed when: TRUE if the deferred of
              \* when.defer() has then itself, FALSE if only its .promise has
  commandObj, \* the entry last shifted by runCommands (closure variable)
  spawned,    \* history: command strings handed to exec, in order
  results,    \* history: outcomes exec reported, in order
  doneCalls,  \* history: arguments of every call of executeCommand's done
  gz,         \* one record per gzipSize call
  stats,      \* one record per generateStats call
  log,        \* lines written through helpers.log
  cbCalls,    \* history: arguments of every call of the completion callback
  md,         \* the md5file calls: locals, stream, deferred, callback history
  st          \* the getStat call: lstat in flight, deferred, settle history

vars == <<api, pc, commands, queue0, optSilent, options, fs,
          deferredThenable, commandObj,
          spawned, results, doneCalls, gz, stats, log, cbCalls, md, st>>

----------------------------------------------------------------------------
(* Bounds and input domains *)

MaxQueue == 3
MaxChunks == 2

Cmds == {"c1", "c2"}
Paths == {"a.js", "b.js"}

(* JavaScript values of the dest label: a string, undefined (the field is
   missing) or a number; v is the text the value has in a concatenation *)
Str(s) == [t |-> "string", v |-> s]
Undefined == [t |-> "undefined", v |-> ""]
Number7 == [t |-> "number", v |-> "7"]
TypeOf(x) == x.t
StringOf(x) == IF x.t = "undefined" THEN "undefined" ELSE x.v
Dests == {Str("out.js"), Undefined, Number7}

(* JavaScript numbers as far as the code distinguishes them *)
Num(n) == [nan |-> FALSE, n |-> n]
NaN == [nan |-> TRUE, n |-> 0]
Falsy(x) == x.nan \/ x.n = 0

(* Queue entries.  Null stands for a falsy entry (null / undefined).  A
   descriptor is an object: id is its identity, so that two entries with the
   same id are one object queued twice and a write to it shows in both. *)
Null == [nil |-> TRUE, id |-> 0, cmd |-> "", dest |-> Undefined,
         fileObj |-> [dest |-> ""]]
Truthy(x) == ~x.nil
CommandEntries ==
  {[nil |-> FALSE, id |-> 0, cmd |-> c, dest |-> d, fileObj |-> [dest |-> ""]] :
      c \in Cmds, d \in Dests} \cup {Null}
StatsEntries ==
  {[nil |-> FALSE, id |-> 0, cmd |-> "c1", dest |-> Str("out.js"),
    fileObj |-> [dest |-> p]] :
      p \in Paths \cup {""}} \cup {Null}
(* The object at position i is a new one (its id is i) or the very object of
   an earlier position. *)
SameObjects(q) ==
  \A i \in DOMAIN q :
    IF q[i].nil
      THEN q[i].id = 0
      ELSE /\ q[i].id \in 1..i
           /\ q[i].id < i => q[q[i].id] = q[i]
Queues(E) ==
  UNION {{q \in [1..n -> {[e EXCEPT !.id = i] : e \in E, i \in 0..n}] :
            SameObjects(q)} : n \in 0..MaxQueue}

(* File contents and gzip payloads, by length *)
Chars(n) == [i \in 1..n |-> "a"]
Bytes(n) == [i \in 1..n |-> 0]
FileStates == {[readable |-> FALSE, data |-> <<>>],
               [readable |-> TRUE, data |-> Chars(0)],
               [readable |-> TRUE, data |-> Chars(8)],
               [readable |-> TRUE, data |-> Chars(20)],
               [readable |-> TRUE, data |-> Chars(64)]}
NoFiles == [p \in Paths |-> [readable |-> FALSE, data |-> <<>>]]

(* What the shell can report to the callback of exec *)
ShellOutcomes == {[err |-> e, stdout |-> o.out, stderr |-> o.err] :
                    e \in BOOLEAN,
                    o \in {[out |-> "o", err |-> ""], [out |-> "", err |-> "e"]}}
(* What zlib.gzip can report to its callback *)
GzipOutcomes == {[err |-> TRUE, result |-> <<>>],
                 [err |-> FALSE, result |-> Bytes(20)],
                 [err |-> FALSE, result |-> Bytes(30)]}

----------------------------------------------------------------------------
(* The mutable state as a record, and its write-back *)

M == [commands |-> commands, commandObj |-> commandObj, spawned |-> spawned,
      results |-> results, doneCalls |-> doneCalls, gz |-> gz, stats |-> stats,
      log |-> log, cbCalls |-> cbCalls, exc |-> FALSE]

Set(m) ==
  /\ commands' = m.commands
  /\ commandObj' = m.commandObj
  /\ spawned' = m.spawned
  /\ results' = m.results
  /\ doneCalls' = m.doneCalls
  /\ gz' = m.gz
  /\ stats' = m.stats
  /\ log' = m.log
  /\ cbCalls' = m.cbCalls

(* helpers.log.info / helpers.log.error *)
Log(m, level, msg, arg) ==
  [m EXCEPT !.log = Append(@, [level |-> level, msg |-> msg, arg |-> arg])]

(* the completion callback cb(success, ...args) of the caller *)
cb(m, success, args) ==
  [m EXCEPT !.cbCalls = Append(@, [success |-> success, args |-> args])]

(* commandObj.dest = v (line 168): a write to the object the closure holds,
   seen through every reference to that object that is still queued *)
WriteDest(m, v) ==
  [m EXCEPT !.commandObj = [@ EXCEPT !.dest = v],
            !.commands = [i \in DOMAIN @ |->
                            IF @[i].id = m.commandObj.id
                              THEN [@[i] EXCEPT !.dest = v]
                              ELSE @[i]]]

(* Array.prototype.shift: undefined on an empty array *)
ShiftHead(q) == IF Len(q) = 0 THEN Null ELSE Head(q)
ShiftRest(q) == IF Len(q) = 0 THEN q ELSE Tail(q)

----------------------------------------------------------------------------
(* runCommands / executeCommand *)

(* Variant of executeCommand with a seeded fault: the silent flag is not
   consulted. *)
executeCommandLoud(m, command) ==
  [Log(m, "info", "Executing: ", command) EXCEPT !.spawned = Append(@, command)]

executeCommand(m, command) ==
  LET m1 == IF ~optSilent THEN Log(m, "info", "Executing: ", command) ELSE m
  IN  [m1 EXCEPT !.spawned = Append(@, command)]

(* Variants of runCommands with a seeded fault, used to show that the
   properties below depend on the code: taking the entry from the wrong end,
   passing extra arguments at the end of the queue, starting the next
   command without waiting for the running one, and removing two entries
   per step. *)
runCommandsPop(m) ==
  LET obj == IF Len(m.commands) = 0 THEN Null ELSE m.commands[Len(m.commands)]
      m1 == [m EXCEPT !.commands = IF Len(@) = 0 THEN @ ELSE SubSeq(@, 1, Len(@) - 1),
                      !.commandObj = obj]
  IN  IF ~Truthy(obj)
        THEN cb(m1, TRUE, <<>>)
        ELSE executeCommand(m1, obj.cmd)

runCommandsExtraArgs(m) ==
  LET obj == ShiftHead(m.commands)
      m1 == [m EXCEPT !.commands = ShiftRest(@), !.commandObj = obj]
  IN  IF ~Truthy(obj)
        THEN cb(m1, TRUE, <<"", "">>)
        ELSE executeCommand(m1, obj.cmd)

runCommandsFanOut(m) ==
  LET obj == ShiftHead(m.commands)
      m1 == [m EXCEPT !.commands = ShiftRest(@), !.commandObj = obj]
      m2 == executeCommand(m1, obj.cmd)
      nxt == ShiftHead(m2.commands)
  IN  IF ~Truthy(obj)
        THEN cb(m1, TRUE, <<>>)
        ELSE IF Truthy(nxt)
          THEN executeCommand([m2 EXCEPT !.commands = ShiftRest(@)], nxt.cmd)
          ELSE m2

runCommandsShiftTwo(m) ==
  LET obj == ShiftHead(m.commands)
      m1 == [m EXCEPT !.commands = ShiftRest(ShiftRest(@)), !.commandObj = obj]
  IN  IF ~Truthy(obj)
        THEN cb(m1, TRUE, <<>>)
        ELSE executeCommand(m1, obj.cmd)

runCommands(m) ==
  LET obj == ShiftHead(m.commands)
      m1 == [m EXCEPT !.commands = ShiftRest(@), !.commandObj = obj]
  IN  IF ~Truthy(obj)
        THEN cb(m1, TRUE, <<>>)
        ELSE executeCommand(m1, obj.cmd)

(* Variant of done with a seeded fault: after reporting the failure it falls
   through to the next command. *)
doneFallThrough(m, state, stderr, stdout) ==
  LET ok == IF ~optSilent
              THEN Log(m, "info", "Command complete for target: ",
                       StringOf(m.commandObj.dest))
              ELSE m
      m1 == IF TypeOf(m.commandObj.dest) # "string"
              THEN WriteDest(m, Str("undefined"))
              ELSE m
      m2 == Log(m1, "error", "FAILED to run command for target: ",
                m1.commandObj.dest.v)
  IN  IF state
        THEN runCommands(ok)
        ELSE runCommands(cb(m2, FALSE, <<stderr, stdout>>))

(* Variant of done with a seeded fault: the label is not normalised, so
   reading a colour property of a label that is not a string throws before
   anything is logged or reported. *)
doneNoNormalize(m, state, stderr, stdout) ==
  IF state
    THEN runCommands(IF ~optSilent
                       THEN Log(m, "info", "Command complete for target: ",
                                StringOf(m.commandObj.dest))
                       ELSE m)
    ELSE IF TypeOf(m.commandObj.dest) # "string"
      THEN [m EXCEPT !.exc = TRUE]
      ELSE cb(Log(m, "error", "FAILED to run command for target: ",
                  m.commandObj.dest.v),
              FALSE, <<stderr, stdout>>)

(* the callback runCommands hands to executeCommand (lines 162-173) *)
done(m, state, stderr, stdout) ==
  IF state
    THEN runCommands(IF ~optSilent
                       THEN Log(m, "info", "Command complete for target: ",
                                StringOf(m.commandObj.dest))
                       ELSE m)
    ELSE LET m1 == IF TypeOf(m.commandObj.dest) # "string"
                     THEN WriteDest(m, Str("undefined"))
                     ELSE m
             m2 == Log(m1, "error", "FAILED to run command for target: ",
                       m1.commandObj.dest.v)
         IN  cb(m2, FALSE, <<stderr, stdout>>)

(* history of the calls of done: state and the further arguments *)
DoneCalled(m, state, args) ==
  [m EXCEPT !.doneCalls = Append(@, [state |-> state, args |-> args])]

(* Variant of execCB with a seeded fault: the return after done(false, ...)
   is missing, so the success path runs as well. *)
execCBNoReturn(m, err, stdout, stderr) ==
  LET m1 == IF err
              THEN done(DoneCalled(Log(m, "error", "", "err"),
                                   FALSE, <<stderr, stdout>>),
                        FALSE, stderr, stdout)
              ELSE m
      m2 == IF ~optSilent
              THEN Log(m1, "info", "", IF stdout # "" THEN stdout ELSE stderr)
              ELSE m1
  IN  done(DoneCalled(m2, TRUE, <<>>), TRUE, "", "")

(* the callback executeCommand hands to exec (lines 79-88) *)
execCB(m, err, stdout, stderr) ==
  IF err
    THEN done(DoneCalled(Log(m, "error", "", "err"), FALSE, <<stderr, stdout>>),
              FALSE, stderr, stdout)
    ELSE done(DoneCalled(IF ~optSilent
                           THEN Log(m, "info", "",
                                    IF stdout # "" THEN stdout ELSE stderr)
                           ELSE m,
                         TRUE, <<>>),
              TRUE, "", "")

ShellOutstanding == Len(spawned) - Len(results)

----------------------------------------------------------------------------
(* runStats / generateStats / gzipSize / gzipfile *)

(* gzipfile (lines 315-327): grunt.file.read throws on an unreadable file,
   before zlib.gzip is started and before the deferred is returned.  The
   deferred is the gz record; listening says whether gzipSize has attached
   its handlers to it. *)
gzipfile(m, filename) ==
  IF ~fs[filename].readable
    THEN [m EXCEPT !.exc = TRUE,
                   !.gz = Append(@, [file |-> filename, state |-> "threw",
                                     listening |-> FALSE,
                                     res |-> <<>>, callback |-> <<>>])]
    ELSE [m EXCEPT !.gz = Append(@, [file |-> filename, state |-> "pending",
                                     listening |-> FALSE,
                                     res |-> <<>>, callback |-> <<>>])]

(* gzipSize (lines 98-104), the synchronous part: then/otherwise are called
   on what gzipfile returned, which is the deferred itself (line 326), not
   its promise.  Where the deferred has no then, line 99 throws a TypeError
   with the gzip already started. *)
gzipSize(m, file) ==
  LET m1 == gzipfile(m, file)
  IN  IF m1.exc
        THEN m1
        ELSE IF deferredThenable
          THEN [m1 EXCEPT !.gz[Len(m1.gz)].listening = TRUE]
          ELSE [m1 EXCEPT !.exc = TRUE]

(* generateStats (lines 112-113), the synchronous part *)
generateStats(m, filePath) ==
  gzipSize([m EXCEPT !.stats = Append(@, [filePath |-> filePath, reads |-> 0,
                                          lines |-> 0, compiledSize |-> -1,
                                          percent |-> <<>>, fn |-> <<>>])],
           filePath)

(* Variant of runStats with a seeded fault: options.compile is not
   consulted. *)
runStatsAlways(m) ==
  LET obj == ShiftHead(m.commands)
      m1 == [m EXCEPT !.commands = ShiftRest(@)]
      dest == obj.fileObj.dest
  IN  IF ~Truthy(obj)
        THEN cb(m1, TRUE, <<>>)
        ELSE IF dest # "" /\ Len(dest) > 0
          THEN generateStats(Log(m1, "info", "File statistics for ", dest), dest)
          ELSE m1

runStats(m) ==
  LET obj == ShiftHead(m.commands)
      m1 == [m EXCEPT !.commands = ShiftRest(@)]
      dest == obj.fileObj.dest
  IN  IF ~Truthy(obj)
        THEN cb(m1, TRUE, <<>>)
        ELSE IF options.compile
          THEN IF dest # "" /\ Len(dest) > 0
                 THEN generateStats(Log(m1, "info", "File statistics for ", dest), dest)
                 ELSE m1
          ELSE cb(m1, TRUE, <<>>)

(* the callback runStats hands to generateStats (lines 198-200); it takes no
   parameter, so the boolean generateStats reports is dropped. i is the
   generateStats call that reports. *)
fn(m, i, ok) ==
  runStats([m EXCEPT !.stats[i].fn =
              Append(@, [ok |-> ok, reads |-> m.stats[i].reads,
                         lines |-> m.stats[i].lines])])

(* Line 120 computes in IEEE 754 doubles.  A natural number of any size is a
   sequence of bits, least significant first, without leading zeros (the
   significand of a double has 53 bits). *)
Trim(b) ==
  LET ones == {i \in 1..Len(b) : b[i] = 1}
  IN  IF ones = {} THEN <<>>
      ELSE SubSeq(b, 1, CHOOSE i \in ones : \A j \in ones : j <= i)
BitsOf(n) == Trim([i \in 1..31 |-> (n \div 2^(i - 1)) % 2])
Bit(b, i) == IF i \in 1..Len(b) THEN b[i] ELSE 0
ShiftLeft(b, k) == IF b = <<>> THEN b ELSE [i \in 1..k |-> 0] \o b
ShiftRight(b, k) == SubSeq(b, k + 1, Len(b))
(* a + b: position i receives a carry if an earlier position produces one
   and every position in between passes it on *)
Add(a, b) ==
  LET n == (IF Len(a) > Len(b) THEN Len(a) ELSE Len(b)) + 1
      carry(i) == IF \E j \in 1..(i - 1) :
                       /\ Bit(a, j) + Bit(b, j) = 2
                       /\ \A k \in (j + 1)..(i - 1) : Bit(a, k) + Bit(b, k) >= 1
                    THEN 1 ELSE 0
  IN  Trim([i \in 1..n |-> (Bit(a, i) + Bit(b, i) + carry(i)) % 2])
(* a - b for a >= b: position i lends if an earlier position has to borrow
   and no position in between can pay *)
Sub(a, b) ==
  LET borrow(i) == IF \E j \in 1..(i - 1) :
                        /\ Bit(a, j) < Bit(b, j)
                        /\ \A k \in (j + 1)..(i - 1) : Bit(a, k) <= Bit(b, k)
                     THEN 1 ELSE 0
  IN  Trim([i \in 1..Len(a) |-> (Bit(a, i) - Bit(b, i) - borrow(i)) % 2])
Less(a, b) ==
  \/ Len(a) < Len(b)
  \/ /\ Len(a) = Len(b)
     /\ \E i \in 1..Len(a) : /\ a[i] < b[i]
                             /\ \A j \in (i + 1)..Len(a) : a[j] = b[j]

(* A double: not a number, an infinity, or (-1)^neg * mant * 2^exp with a
   significand mant of at most 53 bits, kept odd (or empty for zero).  The exponents line 120 can produce
   from two file sizes are far inside the range of a double. *)
Precision == 53
NotANumber == [kind |-> "NaN", neg |-> FALSE, mant |-> <<>>, exp |-> 0]
Infinite(neg) == [kind |-> "Infinity", neg |-> neg, mant |-> <<>>, exp |-> 0]
Finite(neg, mant, exp) ==
  LET ones == {i \in 1..Len(mant) : mant[i] = 1}
      low == IF ones = {} THEN 0
             ELSE (CHOOSE i \in ones : \A j \in ones : i <= j) - 1
  IN  [kind |-> "finite", neg |-> neg, mant |-> ShiftRight(mant, low),
       exp |-> IF ones = {} THEN 0 ELSE exp + low]

(* The double nearest to b * 2^e (plus, when sticky, a fraction of 2^e that
   is not zero), ties to the even significand *)
RoundToDouble(neg, b, e, sticky) ==
  LET k == Len(b) - Precision
  IN  IF k <= 0
        THEN Finite(neg, b, e)
        ELSE LET kept == ShiftRight(b, k)
                 rest == sticky \/ \E i \in 1..(k - 1) : b[i] = 1
                 up == b[k] = 1 /\ (rest \/ kept[1] = 1)
                 r == IF up THEN Add(kept, <<1>>) ELSE kept
             IN  IF Len(r) > Precision
                   THEN Finite(neg, ShiftRight(r, 1), e + k + 1)
                   ELSE Finite(neg, r, e + k)

(* Long division of r / b for r < b: the remainder after n bits of the
   quotient is 2^n * r mod b, found by halving n; bit k after the binary
   point is 1 when twice the remainder after k - 1 bits reaches b *)
RECURSIVE Remainder(_, _, _)
Remainder(r, b, n) ==
  IF n = 0 \/ r = 0 THEN r
  ELSE IF n = 1 THEN (2 * r) % b
  ELSE LET half == Remainder(r, b, n \div 2)
       IN  IF half = 0 THEN 0 ELSE Remainder(half, b, n - n \div 2)

(* a / b for two array lengths (below 2^30).  A quotient that is not zero is
   at least 2^-30, so that 86 bits after the binary point hold two bits more
   than the significand does, which is enough to round. *)
FractionBits == Precision + 2 + 31
Divide(a, b) ==
  IF b = 0
    THEN (IF a = 0 THEN NotANumber ELSE Infinite(FALSE))
    ELSE LET r == a % b
             frac == [i \in 1..FractionBits |->
                        IF 2 * Remainder(r, b, FractionBits - i) >= b
                          THEN 1 ELSE 0]
         IN  RoundToDouble(FALSE, Trim(frac \o BitsOf(a \div b)),
                           -FractionBits, Remainder(r, b, FractionBits) # 0)

(* 1 - x *)
OneMinus(x) ==
  IF x.kind = "NaN" THEN x
  ELSE IF x.kind = "Infinity" THEN Infinite(~x.neg)
  ELSE LET e == IF x.exp < 0 THEN x.exp ELSE 0
           one == ShiftLeft(<<1>>, -e)
           m == ShiftLeft(x.mant, x.exp - e)
       IN  IF x.neg
             THEN RoundToDouble(FALSE, Add(one, m), e, FALSE)
             ELSE IF Less(one, m)
               THEN RoundToDouble(TRUE, Sub(m, one), e, FALSE)
               ELSE RoundToDouble(FALSE, Sub(one, m), e, FALSE)

(* x * 100 *)
Times100(x) ==
  IF x.kind # "finite" THEN x
  ELSE RoundToDouble(x.neg,
                     Add(Add(ShiftLeft(x.mant, 6), ShiftLeft(x.mant, 5)),
                         ShiftLeft(x.mant, 2)),
                     x.exp, FALSE)

(* The decimal digits of a natural number *)
DigitChars == <<"0", "1", "2", "3", "4", "5", "6", "7", "8", "9">>
RECURSIVE ModTen(_)
ModTen(b) ==
  IF Len(b) <= 4
    THEN (Bit(b, 1) + 2 * Bit(b, 2) + 4 * Bit(b, 3) + 8 * Bit(b, 4)) % 10
    ELSE LET h == 4 * ((Len(b) + 4) \div 8)   \* 2^h mod 10 = 6
         IN  (6 * ModTen(ShiftRight(b, h)) + ModTen(SubSeq(b, 1, h))) % 10
(* quotient and remainder of a division by ten: quotient bit i comes from
   the remainder the bits above i leave *)
DivTen(b) ==
  [q |-> [i \in 1..Len(b) |-> (2 * ModTen(ShiftRight(b, i)) + b[i]) \div 10],
   r |-> ModTen(b)]
RECURSIVE Decimal(_)
Decimal(b) ==
  LET d == DivTen(b)
      q == Trim(d.q)
  IN  (IF q = <<>> THEN <<>> ELSE Decimal(q)) \o <<DigitChars[d.r + 1]>>

(* Number.prototype.toFixed(2), as text (a sequence of characters; the name
   of a value that is not finite is one element).  n is the integer for which
   n / 100 is nearest to the magnitude, the larger one of two; a negative
   value gets a leading "-", also when it rounds to zero. *)
toFixed2(x) ==
  IF x.kind = "NaN" THEN <<"NaN">>
  ELSE IF x.kind = "Infinity"
    THEN (IF x.neg THEN <<"-">> ELSE <<>>) \o <<"Infinity">>
  ELSE LET scaled == Add(Add(ShiftLeft(x.mant, 6), ShiftLeft(x.mant, 5)),
                         ShiftLeft(x.mant, 2))
           n == IF x.exp >= 0
                  THEN ShiftLeft(scaled, x.exp)
                  ELSE ShiftRight(Add(scaled, ShiftLeft(<<1>>, -x.exp - 1)),
                                  -x.exp)
           d == Decimal(n)
           m == IF Len(d) < 3 THEN [i \in 1..(3 - Len(d)) |-> "0"] \o d ELSE d
       IN  (IF x.neg /\ x.mant # <<>> THEN <<"-">> ELSE <<>>)
             \o SubSeq(m, 1, Len(m) - 2) \o <<".">> \o SubSeq(m, Len(m) - 1, Len(m))

(* line 120: String('-' + ((1 - (gzipSize / compiledSize)) * 100).toFixed(2) + '%') *)
percentText(gzSize, compiledSize) ==
  <<"-">> \o toFixed2(Times100(OneMinus(Divide(gzSize, compiledSize)))) \o <<"%">>

(* the callback generateStats hands to gzipSize (lines 113-128) *)
genStatsCallback(m, i, gzSize) ==
  LET m0 == [m EXCEPT !.gz[i].callback = Append(@, gzSize)]
      filePath == m0.stats[i].filePath
  IN  IF Falsy(gzSize)
        THEN fn(m0, i, FALSE)
        ELSE IF ~fs[filePath].readable
          THEN [m0 EXCEPT !.exc = TRUE]
          ELSE LET src == fs[filePath].data
                   m1 == [m0 EXCEPT !.stats[i].reads = @ + 1,
                                    !.stats[i].compiledSize = Len(src),
                                    !.stats[i].percent =
                                       percentText(gzSize.n, Len(src))]
                   m2 == Log(m1, "info", "Compiled size:", "")
                   m3 == Log(m2, "info", "GZipped size:", "")
               IN  fn([m3 EXCEPT !.stats[i].lines = @ + 2], i, TRUE)

(* the handlers of gzipSize: then (lines 99-101) and otherwise (101-103) *)
gzipSizeThen(m, i, res) == genStatsCallback(m, i, Num(Len(res)))
gzipSizeOtherwise(m, i) == genStatsCallback(m, i, NaN)

(* the callback gzipfile hands to zlib.gzip (lines 318-324) settles the
   deferred.  With the handlers of gzipSize attached: an exception thrown
   inside the then handler rejects the promise the otherwise handler listens
   on; an exception thrown inside the otherwise handler rejects a promise
   nobody listens on.  Without them the settled deferred has no listener. *)
gzipCB(m, i, err, result) ==
  LET settled == IF err
                   THEN [m EXCEPT !.gz[i].state = "rejected"]
                   ELSE [m EXCEPT !.gz[i].state = "resolved",
                                  !.gz[i].res = result]
      r == IF ~m.gz[i].listening
             THEN settled
             ELSE IF err
               THEN gzipSizeOtherwise(settled, i)
               ELSE LET m1 == gzipSizeThen(settled, i, result)
                    IN  IF m1.exc
                          THEN gzipSizeOtherwise([m1 EXCEPT !.exc = FALSE], i)
                          ELSE m1
  IN  [r EXCEPT !.exc = FALSE]

GzipPending == {i \in 1..Len(gz) : gz[i].state = "pending"}
IoOutstanding == Cardinality(GzipPending)

----------------------------------------------------------------------------
(* md5file *)

(* Two calls are modelled side by side, each with its own stream *)
Md5Calls == {1, 2}
(* the Buffers a ReadStream can hand to a 'data' listener *)
ChunkValues == {<<1>>, <<2, 3>>}

(* when.defer(): a deferred settles at most once; later resolutions are
   ignored *)
Pending == [state |-> "pending", value |-> <<>>]
resolve(p, v) == IF p.state = "pending"
                   THEN [state |-> "resolved", value |-> <<v>>]
                   ELSE p

(* md5sum.digest('hex'): the digest is a function of the bytes the hash has
   absorbed, and stands here for the hex text of their MD5 *)
digest(absorbed) == [md5hex |-> absorbed]

NotCalled == [state |-> "idle", optCb |-> FALSE, chunks |-> <<>>,
              md5sum |-> <<>>, fileContents |-> <<>>, promise |-> Pending,
              cb |-> <<>>]

(* md5file (lines 269-288), the synchronous part: the locals of call c *)
md5file(f, c, optCb) ==
  [f EXCEPT ![c] = [state |-> "open", optCb |-> optCb, chunks |-> <<>>,
                    md5sum |-> <<>>, fileContents |-> <<>>,
                    promise |-> Pending, cb |-> <<>>]]

(* Variant of onData with a seeded fault: one hash object shared by all
   calls instead of one per call. *)
onDataSharedHash(f, c, d) ==
  [k \in Md5Calls |->
     IF k = c
       THEN [f[k] EXCEPT !.fileContents = @ \o d, !.md5sum = @ \o d,
                         !.chunks = Append(@, d)]
       ELSE IF f[k].state = "open"
         THEN [f[k] EXCEPT !.md5sum = @ \o d]
         ELSE f[k]]

(* the 'data' listener (lines 276-279) *)
onData(f, c, d) ==
  [f EXCEPT ![c].fileContents = @ \o d,
            ![c].md5sum = @ \o d,
            ![c].chunks = Append(@, d)]

(* the 'end' listener (lines 281-285); cb is optCb or a no-op *)
onEnd(f, c) ==
  LET hash == digest(f[c].md5sum)
  IN  [f EXCEPT ![c].state = "ended",
                ![c].promise = resolve(@, hash),
                ![c].cb = IF f[c].optCb THEN Append(@, hash) ELSE @]

----------------------------------------------------------------------------
(* getStat *)

(* what fs.lstat can report to its callback *)
LstatOutcomes == {[err |-> "ENOENT", stat |-> [kind |-> "none"]],
                  [err |-> "", stat |-> [kind |-> "file"]],
                  [err |-> "", stat |-> [kind |-> "symlink"]]}

reject(p, v) == IF p.state = "pending"
                  THEN [state |-> "rejected", value |-> <<v>>]
                  ELSE p

(* outcome is history: what lstat reported *)
StatIdle == [lstat |-> "idle", outcome |-> <<>>, promise |-> Pending,
             settles |-> <<>>]

(* getStat (lines 296-307), the synchronous part *)
getStat(s) == [s EXCEPT !.lstat = "pending", !.promise = Pending]

(* Variant of lstatCB with a seeded fault: the return after the reject is
   missing. *)
lstatCBNoReturn(s, err, stat) ==
  LET s1 == IF err # ""
              THEN [s EXCEPT !.promise = reject(@, <<"lstat failed:", err>>),
                             !.settles = Append(@, "reject")]
              ELSE s
  IN  [s1 EXCEPT !.lstat = "done",
                 !.promise = resolve(@, stat),
                 !.settles = Append(@, "resolve")]

(* the callback of fs.lstat (lines 298-305); the rejection text is
   'lstat failed:' followed by the text of err *)
lstatCB(s, err, stat) ==
  IF err # ""
    THEN [s EXCEPT !.lstat = "done",
                   !.promise = reject(@, <<"lstat failed:", err>>),
                   !.settles = Append(@, "reject")]
    ELSE [s EXCEPT !.lstat = "done",
                   !.promise = resolve(@, stat),
                   !.settles = Append(@, "resolve")]

----------------------------------------------------------------------------
Init ==
  /\ pc = "idle"
  /\ \/ /\ api = "runCommands"
        /\ commands \in Queues(CommandEntries)
        /\ optSilent \in BOOLEAN
        /\ options = [compile |-> FALSE]
        /\ fs = NoFiles
        /\ deferredThenable = TRUE   \* runCommands makes no use of when
     \/ /\ api = "runStats"
        /\ commands \in Queues(StatsEntries)
        /\ optSilent = FALSE
        /\ options \in [compile : BOOLEAN]
        /\ fs \in [Paths -> FileStates]
        /\ deferredThenable \in BOOLEAN
     \/ /\ api \in {"md5file", "getStat"}
        /\ commands = <<>>
        /\ optSilent = FALSE
        /\ options = [compile |-> FALSE]
        /\ fs = NoFiles
        /\ deferredThenable \in BOOLEAN
  /\ md = [c \in Md5Calls |-> NotCalled]
  /\ st = StatIdle
  /\ queue0 = commands
  /\ commandObj = Null
  /\ spawned = <<>>
  /\ results = <<>>
  /\ doneCalls = <<>>
  /\ gz = <<>>
  /\ stats = <<>>
  /\ log = <<>>
  /\ cbCalls = <<>>

CallRunCommands ==
  /\ pc = "idle"
  /\ api = "runCommands"
  /\ pc' = "returned"
  /\ Set(runCommands(M))
  /\ UNCHANGED <<api, queue0, optSilent, options, fs, deferredThenable, md, st>>

ExecCB ==
  /\ ShellOutstanding > 0
  /\ \E o \in ShellOutcomes :
       Set(execCB([M EXCEPT !.results = Append(@, o)], o.err, o.stdout, o.stderr))
  /\ UNCHANGED <<api, pc, queue0, optSilent, options, fs, deferredThenable, md, st>>

CallRunStats ==
  /\ pc = "idle"
  /\ api = "runStats"
  /\ LET r == runStats(M)
     IN  /\ pc' = IF r.exc THEN "threw" ELSE "returned"
         /\ Set(r)
  /\ UNCHANGED <<api, queue0, optSilent, options, fs, deferredThenable, md, st>>

GzipCB ==
  /\ \E i \in GzipPending : \E o \in GzipOutcomes :
       Set(gzipCB(M, i, o.err, o.result))
  /\ UNCHANGED <<api, pc, queue0, optSilent, options, fs, deferredThenable, md, st>>

run == <<pc, commands, queue0, optSilent, options, fs, deferredThenable,
        commandObj,
         spawned, results, doneCalls, gz, stats, log, cbCalls>>

CallMd5file ==
  /\ api = "md5file"
  /\ \E c \in Md5Calls : \E optCb \in BOOLEAN :
       /\ md[c].state = "idle"
       /\ md' = md5file(md, c, optCb)
  /\ UNCHANGED <<api, run, st>>

StreamData ==
  /\ \E c \in Md5Calls : \E d \in ChunkValues :
       /\ md[c].state = "open"
       /\ Len(md[c].chunks) < MaxChunks
       /\ md' = onData(md, c, d)
  /\ UNCHANGED <<api, run, st>>

StreamEnd ==
  /\ \E c \in Md5Calls :
       /\ md[c].state = "open"
       /\ md' = onEnd(md, c)
  /\ UNCHANGED <<api, run, st>>

(* the stream fails ('error' is emitted, for which md5file has no listener):
   'end' never comes *)
StreamError ==
  /\ \E c \in Md5Calls :
       /\ md[c].state = "open"
       /\ md' = [md EXCEPT ![c].state = "errored"]
  /\ UNCHANGED <<api, run, st>>

CallGetStat ==
  /\ api = "getStat"
  /\ st.lstat = "idle"
  /\ st' = getStat(st)
  /\ UNCHANGED <<api, run, md>>

LstatCB ==
  /\ st.lstat = "pending"
  /\ \E o \in LstatOutcomes :
       st' = lstatCB([st EXCEPT !.outcome = <<o>>], o.err, o.stat)
  /\ UNCHANGED <<api, run, md>>

Next ==
  \/ CallRunCommands \/ ExecCB \/ CallRunStats \/ GzipCB
  \/ CallMd5file \/ StreamData \/ StreamEnd \/ StreamError
  \/ CallGetStat \/ LstatCB

Spec == Init /\ [][Next]_vars

----------------------------------------------------------------------------
(* Shared vocabulary of the properties *)

AllDescriptors(q) == \A i \in 1..Len(q) : Truthy(q[i])
NoneFailed == \A j \in 1..Len(results) : ~results[j].err
FirstFailure == CHOOSE k \in 1..Len(results) :
                  results[k].err /\ \A j \in 1..(k - 1) : ~results[j].err
Success == [success |-> TRUE, args |-> <<>>]
(* which objects a queue holds, position by position, and the command of each *)
Identity(q) == [i \in DOMAIN q |-> [id |-> q[i].id, cmd |-> q[i].cmd]]

(* C1: runCommands is fail-fast.  When the command at position k is the
   first to fail, exactly k commands were handed to the shell (the first k
   of the queue, in order), entries k+1..N are still in the queue and were
   never run, and the completion callback was called exactly once, with
   false, the stderr and the stdout of the failing command. *)
C1_FailFast ==
  (api = "runCommands" /\ ~NoneFailed) =>
    LET k == FirstFailure
    IN  /\ Len(spawned) = k
        /\ Len(results) = k
        /\ \A i \in 1..k : spawned[i] = queue0[i].cmd
        /\ Identity(commands) = Identity(SubSeq(queue0, k + 1, Len(queue0)))
        /\ cbCalls = <<[success |-> FALSE,
                        args |-> <<results[k].stderr, results[k].stdout>>]>>

C1_Witness ==
  /\ api = "runCommands"
  /\ Len(queue0) = 3
  /\ Len(results) = 2
  /\ ~results[1].err
  /\ results[2].err
  /\ Len(cbCalls) = 1

(* C2: when every entry of the queue is a descriptor and every command
   succeeds, the commands handed to the shell are the cmd fields of the
   queue in queue order, the completion callback is not called before the
   last command has completed, and once it has, N commands were run and the
   callback was called exactly once with true and nothing else. *)
C2_AllSucceed ==
  (api = "runCommands" /\ pc # "idle" /\ AllDescriptors(queue0) /\ NoneFailed) =>
    /\ Len(spawned) <= Len(queue0)
    /\ \A i \in 1..Len(spawned) : spawned[i] = queue0[i].cmd
    /\ Len(results) < Len(queue0) => cbCalls = <<>>
    /\ Len(results) = Len(queue0) =>
         /\ Len(spawned) = Len(queue0)
         /\ cbCalls = <<Success>>

C2_Witness ==
  /\ api = "runCommands"
  /\ Len(queue0) = 3
  /\ queue0[1].cmd # queue0[2].cmd
  /\ AllDescriptors(queue0)
  /\ Len(results) = 3
  /\ NoneFailed
  /\ cbCalls = <<Success>>

(* C3: for an empty queue runCommands calls the completion callback exactly
   once, with true and no further argument, and hands nothing to the
   shell. *)
C3_EmptyQueue ==
  (api = "runCommands" /\ queue0 = <<>> /\ pc # "idle") =>
    /\ cbCalls = <<Success>>
    /\ spawned = <<>>

C3_Witness ==
  /\ api = "runCommands"
  /\ queue0 = <<>>
  /\ pc = "returned"
  /\ Len(cbCalls) = 1

(* C4: within one run at most one shell process and at most one gzip
   operation is outstanding, and a step is started only after every earlier
   step has called back. *)
C4_OneAtATime ==
  /\ ShellOutstanding \in {0, 1}
  /\ IoOutstanding \in {0, 1}
  /\ \A i \in 1..(Len(gz) - 1) : gz[i].state # "pending"

C4_Witness ==
  /\ api = "runCommands"
  /\ Len(spawned) = 3
  /\ Len(results) = 2
  /\ ShellOutstanding = 1

(* C6: with options.compile false, runStats calls the completion callback
   exactly once, with true, and never calls generateStats, whatever the
   queue holds. *)
C6_NoCompile ==
  (api = "runStats" /\ ~options.compile /\ pc # "idle") =>
    /\ pc = "returned"
    /\ cbCalls = <<Success>>
    /\ stats = <<>>
    /\ gz = <<>>

C6_Witness ==
  /\ api = "runStats"
  /\ ~options.compile
  /\ Len(queue0) = 3
  /\ Truthy(queue0[1])
  /\ queue0[1].fileObj.dest # ""
  /\ fs[queue0[1].fileObj.dest].readable
  /\ pc = "returned"
  /\ Len(cbCalls) = 1

(* The run is at rest: the call has been made and nothing is outstanding, so
   no callback of the run can fire any more. *)
Quiescent == pc # "idle" /\ ShellOutstanding = 0 /\ IoOutstanding = 0

NamedFilesReadable ==
  \A i \in 1..Len(queue0) :
    (Truthy(queue0[i]) /\ queue0[i].fileObj.dest # "") =>
      fs[queue0[i].fileObj.dest].readable

AllDestsNonEmpty(q) ==
  \A i \in 1..Len(q) : Truthy(q[i]) /\ q[i].fileObj.dest # ""

(* C5: with options.compile true, runStats reaches its completion callback
   for every queue, also one with an entry whose fileObj.dest is empty: a
   run that is at rest has called the completion callback.  (Stated for
   queues whose named files are readable and for a when whose deferred is
   thenable, so that only the empty destination is in play.) *)
C5_EmptyDestCompletes ==
  (api = "runStats" /\ options.compile /\ NamedFilesReadable
     /\ deferredThenable /\ Quiescent) =>
    Len(cbCalls) >= 1

(* C7: with options.compile true and N entries that all have a non-empty
   fileObj.dest, a run at rest has called generateStats N times, once per
   entry in queue order, and has called the completion callback exactly
   once, with true. *)
C7_StatsPerEntry ==
  (api = "runStats" /\ options.compile /\ AllDestsNonEmpty(queue0) /\ Quiescent) =>
    /\ Len(stats) = Len(queue0)
    /\ \A i \in 1..Len(stats) : stats[i].filePath = queue0[i].fileObj.dest
    /\ cbCalls = <<Success>>

(* C8: gzipSize never throws and calls its callback exactly once: with the
   byte length of the compressed payload when compression succeeded, with
   NaN when the read or the compression failed. *)
C8_GzipSizeOnce ==
  \A i \in 1..Len(gz) :
    /\ gz[i].state # "threw"
    /\ gz[i].state # "pending" =>
         /\ Len(gz[i].callback) = 1
         /\ gz[i].state = "resolved" => gz[i].callback[1] = Num(Len(gz[i].res))
         /\ gz[i].state = "rejected" => gz[i].callback[1] = NaN

(* C9: generateStats calls fn exactly once per call: with false, before any
   read of the file by generateStats and before any log line, when the gzip
   size is falsy; with true, after the read and the two size lines, when
   the gzip size is a positive number. *)
C9_GenerateStatsOnce ==
  \A i \in 1..Len(stats) :
    gz[i].state # "pending" =>
      /\ Len(stats[i].fn) = 1
      /\ Len(gz[i].callback) >= 1
      /\ Falsy(gz[i].callback[1]) =>
           stats[i].fn[1] = [ok |-> FALSE, reads |-> 0, lines |-> 0]
      /\ ~Falsy(gz[i].callback[1]) =>
           stats[i].fn[1] = [ok |-> TRUE, reads |-> 1, lines |-> 2]

(* C10: a failure reported by generateStats ends the runStats run: no later
   entry is processed and the completion callback is called with false. *)
C10_StatsFailureTerminal ==
  \A i \in 1..Len(stats) :
    (\E j \in 1..Len(stats[i].fn) : ~stats[i].fn[j].ok) =>
      /\ Len(stats) = i
      /\ commands = SubSeq(queue0, i + 1, Len(queue0))
      /\ Len(cbCalls) = 1
      /\ ~cbCalls[1].success

(* The position in the caller's queue of the entry runCommands shifted last *)
Position == Len(queue0) - Len(commands)

(* C11: when a command fails and the dest of its descriptor is missing or
   not a string, the error line carries the label "undefined", and the
   completion callback is called exactly once with false, the stderr and
   the stdout of the command. *)
C11_MalformedDest ==
  (api = "runCommands" /\ ~NoneFailed
     /\ TypeOf(queue0[FirstFailure].dest) # "string") =>
    /\ log[Len(log)] = [level |-> "error",
                        msg |-> "FAILED to run command for target: ",
                        arg |-> "undefined"]
    /\ cbCalls = <<[success |-> FALSE,
                    args |-> <<results[FirstFailure].stderr,
                               results[FirstFailure].stdout>>]>>

C11_Witness ==
  /\ api = "runCommands"
  /\ Len(results) = 2
  /\ results[2].err
  /\ queue0[2].dest = Number7
  /\ Len(cbCalls) = 1

(* C12: no run changes the cmd or the dest of a descriptor: the entries
   still queued are the caller's entries, and the entry shifted last is
   still equal to the entry the caller put at that position. *)
C12_DescriptorImmutable ==
  /\ Len(commands) <= Len(queue0)
  /\ commands = SubSeq(queue0, Position + 1, Len(queue0))
  /\ (api = "runCommands" /\ Truthy(commandObj)) =>
       /\ commandObj.cmd = queue0[Position].cmd
       /\ commandObj.dest = queue0[Position].dest

(* The percent text reads as a negative figure: it starts with a minus sign *)
ReportedNegative(text) == Len(text) > 0 /\ text[1] = "-"

(* C13: for positive sizes the percent figure generateStats logs is negative
   exactly when the gzip size is smaller than the compiled size. *)
C13_PercentSign ==
  \A i \in 1..Len(stats) :
    (stats[i].lines = 2 /\ stats[i].compiledSize > 0) =>
      (ReportedNegative(stats[i].percent)
         <=> gz[i].callback[1].n < stats[i].compiledSize)

RECURSIVE Flatten(_)
Flatten(chunks) == IF chunks = <<>> THEN <<>>
                   ELSE Head(chunks) \o Flatten(Tail(chunks))

(* C14: md5file settles once, when the stream ends.  Until then neither the
   promise nor the callback has fired; from then on the promise is resolved
   with the digest of all chunks in arrival order, the callback, if one was
   given, was called exactly once with that digest (never if none was
   given), and two calls that were fed the same chunks have the same
   digest. *)
C14_Md5OnEnd ==
  /\ \A c \in Md5Calls :
       /\ md[c].state # "ended" =>
            (md[c].promise = Pending /\ md[c].cb = <<>>)
       /\ md[c].state = "ended" =>
            /\ md[c].promise = [state |-> "resolved",
                                value |-> <<digest(Flatten(md[c].chunks))>>]
            /\ md[c].cb = IF md[c].optCb
                            THEN <<digest(Flatten(md[c].chunks))>>
                            ELSE <<>>
  /\ \A c, e \in Md5Calls :
       (md[c].state = "ended" /\ md[e].state = "ended"
          /\ md[c].chunks = md[e].chunks) =>
         md[c].promise.value = md[e].promise.value

C14_Witness ==
  /\ md[1].state = "ended"
  /\ md[2].state = "ended"
  /\ md[1].optCb
  /\ Len(md[1].chunks) = 2
  /\ md[1].chunks[1] # md[1].chunks[2]
  /\ md[1].chunks = md[2].chunks
  /\ Len(md[1].cb) = 1

(* C15: the promise of getStat settles exactly once: the callback of lstat
   either resolves it with the stat record or rejects it with a text that
   begins with "lstat failed:", never both, and nothing settles it before
   lstat has called back. *)
C15_GetStatSettlesOnce ==
  /\ st.lstat # "done" => (st.promise = Pending /\ st.settles = <<>>)
  /\ st.lstat = "done" =>
       /\ Len(st.settles) = 1
       /\ st.outcome[1].err = "" =>
            /\ st.settles = <<"resolve">>
            /\ st.promise.state = "resolved"
            /\ st.promise.value = <<st.outcome[1].stat>>
       /\ st.outcome[1].err # "" =>
            /\ st.settles = <<"reject">>
            /\ st.promise.state = "rejected"
            /\ st.promise.value[1][1] = "lstat failed:"
            /\ st.promise.value[1][2] = st.outcome[1].err

C15_Witness ==
  /\ st.lstat = "done"
  /\ st.promise.state = "rejected"
  /\ st.promise.value[1] = <<"lstat failed:", "ENOENT">>

(* C16: executeCommand calls done exactly once per call, when the shell has
   reported: done(false, stderr, stdout) when the shell reported an error,
   done(true) with no further argument otherwise. *)
C16_DoneOncePerCommand ==
  /\ Len(doneCalls) = Len(results)
  /\ Len(doneCalls) <= Len(spawned)
  /\ \A i \in 1..Len(doneCalls) :
       doneCalls[i] = IF results[i].err
                        THEN [state |-> FALSE,
                              args |-> <<results[i].stderr, results[i].stdout>>]
                        ELSE [state |-> TRUE, args |-> <<>>]

C16_Witness ==
  /\ Len(doneCalls) = 2
  /\ doneCalls[1].state
  /\ ~doneCalls[2].state
  /\ doneCalls[2].args = <<"e", "">>

(* the number of runCommands invocations so far: the caller's and one per
   command that succeeded *)
Invocations ==
  (IF pc = "idle" THEN 0 ELSE 1)
    + Cardinality({j \in 1..Len(results) : ~results[j].err})

(* C17: runCommands consumes the queue from the front, one entry per step:
   what is left is always the caller's queue without its first entries, the
   same objects in the same order, one removed per invocation while there
   are any; after a failure at position k it is exactly the entries k+1..N,
   and after a success of a queue of descriptors it is empty. *)
C17_ConsumedFromFront ==
  api = "runCommands" =>
    /\ Identity(commands) = Identity(SubSeq(queue0, Position + 1, Len(queue0)))
    /\ Position = IF Invocations < Len(queue0) THEN Invocations ELSE Len(queue0)
    /\ ~NoneFailed =>
         Identity(commands) = Identity(SubSeq(queue0, FirstFailure + 1, Len(queue0)))
    /\ (cbCalls = <<Success>> /\ AllDescriptors(queue0)) => commands = <<>>

C17_Witness ==
  /\ api = "runCommands"
  /\ Len(queue0) = 3
  /\ queue0[2].id # queue0[3].id
  /\ Len(results) = 1
  /\ results[1].err
  /\ Identity(commands) = Identity(<<queue0[2], queue0[3]>>)

(* the positions in the log of the lines with a given message *)
Lines(msg) == {i \in 1..Len(log) : log[i].msg = msg}

(* C18: with the silent flag no info line is logged at all, while a failing
   command still logs the error from the shell layer and then the "FAILED to
   run command for target" line; without the flag every command that
   succeeded has its "Command complete" line, and that line comes before the
   "Executing" line of the next command. *)
C18_SilentFlag ==
  api = "runCommands" =>
    /\ optSilent => \A i \in 1..Len(log) : log[i].level # "info"
    /\ ~NoneFailed =>
         /\ Len(log) >= 2
         /\ log[Len(log) - 1] = [level |-> "error", msg |-> "", arg |-> "err"]
         /\ log[Len(log)].level = "error"
         /\ log[Len(log)].msg = "FAILED to run command for target: "
    /\ ~optSilent =>
         LET E == Lines("Executing: ")
             C == Lines("Command complete for target: ")
         IN  /\ Cardinality(E) = Len(spawned)
             /\ Cardinality(C) = Cardinality({j \in 1..Len(results) : ~results[j].err})
             /\ \A c \in C :
                  LET j == Cardinality({d \in C : d <= c})
                  IN  /\ Cardinality({e \in E : e < c}) = j
                      /\ log[c].arg = StringOf(queue0[j].dest)

C18_Witness ==
  /\ api = "runCommands"
  /\ optSilent
  /\ Len(results) = 3
  /\ results[3].err
  /\ Len(log) = 2

(* C19: runCommands, and runStats with options.compile true, report success
   only when the queue has been drained: a falsy entry is not taken for the
   end of the queue, so no entry is left in the queue when the completion
   callback is called with true. *)
C19_SuccessMeansDrained ==
  (/\ api \in {"runCommands", "runStats"}
   /\ api = "runStats" => options.compile
   /\ \E i \in 1..Len(cbCalls) : cbCalls[i].success) =>
    commands = <<>>
====
